---- MODULE Spec2Model ----
(***************************************************************************)
(* Extraction pipeline of steamdblookuptool.py (SteamDBSeleniumParser):     *)
(* get_games_for_technology tries the data feed (_try_ajax_method) and      *)
(* falls back to the rendered listing (_get_games_selenium_fallback), which *)
(* parses each page (_parse_games_from_current_page and its mutual          *)
(* recursion with _parse_games_from_current_page_simple) and pages with     *)
(* _click_next_page_data_tables.                                            *)
(*                                                                          *)
(* The browser, the HTTP client and the site are the environment: every     *)
(* answer they give is drawn from a bounded set when the code asks for it.  *)
(***************************************************************************)
EXTENDS Integers, Sequences, FiniteSets, TLC

(***************************************************************************)
(* Bounds of the model.                                                     *)
(***************************************************************************)
\* largest application id the site shows
MaxId == 2
\* most table rows on one rendered page
MaxRows == 2
\* most rows in one feed response
MaxFeedRows == 2
\* largest page budget (max_pages) a caller passes
MaxBudget == 2
\* call depth left to the page parser before Python raises RecursionError
RecursionLimit == 4
\* most technologies the catalog lists in one category
MaxTechs == 2
\* largest declared game count of a technology
MaxCount == 2
MaxButtons == 2

(***************************************************************************)
(* Text.  A text is a sequence of characters, so that len() and strip()    *)
(* are computed and not assumed.  "<span>" and "</span>" stand for the      *)
(* characters of an opening and of a closing span tag.                      *)
(***************************************************************************)
Foo == <<"F", "o", "o">>
Bar == <<"B", "a", "r">>
OneChar == <<"X">>
NoText == <<>>
\* a text with blanks around it
Padded == <<" ", "F", "o", "o", " ">>
\* a text that is one span element and nothing else
SpanOnly == <<"<span>", "X", "</span>">>

Whitespace == {" "}

RECURSIVE LStrip(_)
LStrip(s) ==
    IF s # <<>> /\ Head(s) \in Whitespace THEN LStrip(Tail(s)) ELSE s

RECURSIVE RStrip(_)
RStrip(s) ==
    IF s # <<>> /\ s[Len(s)] \in Whitespace
    THEN RStrip(SubSeq(s, 1, Len(s) - 1))
    ELSE s

\* str.strip()
Strip(s) == RStrip(LStrip(s))

\* re.sub(r'\s+', ' ', name): every run of whitespace becomes one blank
RECURSIVE CollapseWhitespace(_)
CollapseWhitespace(s) ==
    IF s = <<>> THEN <<>>
    ELSE IF Head(s) \in Whitespace
         THEN <<" ">> \o CollapseWhitespace(LStrip(s))
         ELSE <<Head(s)>> \o CollapseWhitespace(Tail(s))

\* re.sub(r'\s*<span[^>]*>.*?</span>', '', name): every span element goes,
\* with the whitespace before it
RECURSIVE RemoveSpans(_)
RemoveSpans(s) ==
    IF s = <<>> THEN <<>>
    ELSE LET t == LStrip(s)
         IN  IF t # <<>> /\ Head(t) = "<span>" /\ \E i \in 2..Len(t) : t[i] = "</span>"
             THEN LET close == CHOOSE i \in 2..Len(t) :
                                  t[i] = "</span>" /\ \A j \in 2..(i - 1) : t[j] # "</span>"
                  IN  RemoveSpans(SubSeq(t, close + 1, Len(t)))
             ELSE <<Head(s)>> \o RemoveSpans(Tail(s))

(***************************************************************************)
(* Markup.  A table row (and a feed cell) is described by its anchor:       *)
(*   href   "rel"   href="/app/<appid>/"                                    *)
(*          "abs"   href="https://steamdb.info/app/<appid>/"                *)
(*          "bare"  href="/app/<appid>" (no closing slash)                  *)
(*          "other" an anchor that is no app link                           *)
(*          "none"  no anchor at all                                        *)
(*   text   the anchor's visible text                                       *)
(*   form   "plain"   <a ...>text</a>                                       *)
(*          "wrapped" <a ...><b>text</b></a>                                *)
(*   title  the anchor's title attribute, written after href                *)
(*   dataOrder  a data-order attribute written before href in the tag       *)
(*   store  the row's store icon link (a[title*="Store"], a.info-icon):     *)
(*          "none", "canonical" (https://store.steampowered.com/app/<id>/,  *)
(*          with or without a query) or "other" (another steampowered.com   *)
(*          address)                                                        *)
(*   img    the src of the row's first image: "none", "capsule" (the        *)
(*          address line 772 builds) or "other"                             *)
(*   attr   an appid attribute of the row, holding attrid:                  *)
(*          "none", "quoted" (data-appid="<attrid>", as markup is written)  *)
(*          or "bare" (the text appid=<attrid>, as in a link's query)       *)
(***************************************************************************)
Ids == 1..MaxId

NoLinkRow ==
    [appid |-> 0, href |-> "none", text |-> NoText, form |-> "plain",
     title |-> NoText, dataOrder |-> FALSE,
     store |-> "none", img |-> "none", attr |-> "none", attrid |-> 0]

AnchorRow(i, t) ==
    [appid |-> i, href |-> "rel", text |-> t, form |-> "plain",
     title |-> NoText, dataOrder |-> FALSE,
     store |-> "none", img |-> "none", attr |-> "none", attrid |-> 0]

\* the rows the rendered listing and the feed cells are drawn from: every
\* application under the name Foo, application 1 also renamed to Bar and under
\* a one-character name, and a row without any link
Rows ==
    {NoLinkRow, AnchorRow(1, Bar), AnchorRow(1, OneChar)}
    \cup {AnchorRow(i, Foo) : i \in Ids}

RECURSIVE SeqsUpTo(_, _)
SeqsUpTo(S, n) ==
    IF n = 0 THEN {<<>>}
    ELSE LET shorter == SeqsUpTo(S, n - 1)
         IN  shorter \cup {Append(s, x) : s \in {t \in shorter : Len(t) = n - 1}, x \in S}

\* the contents a rendered page can have: its table rows in document order
\* (at least one row: the driver parses only after a row-presence wait)
PageSet == SeqsUpTo(Rows, MaxRows) \ {<<>>}

(***************************************************************************)
(* Records and results.                                                     *)
(***************************************************************************)
\* the dict built at lines 416-423, 668-674 and 849-856
GameData(appid, name) == [appid |-> appid, name |-> name]

Return(v) == [kind |-> "return", val |-> v]
Raise == [kind |-> "raise", val |-> <<>>]
Pending == [kind |-> "none", val |-> <<>>]

\* any(g['appid'] == appid for g in games)
HasAppid(games, appid) == \E i \in 1..Len(games) : games[i].appid = appid

(***************************************************************************)
(* Bulk pattern strategy: _parse_games_from_current_page_simple scans the   *)
(* page markup with four regular expressions.                               *)
(***************************************************************************)
\* whether app_patterns[k] matches the row's anchor
PatternMatches(k, row) ==
    CASE k = 1 -> row.href = "rel" /\ row.form = "plain" /\ row.text # <<>>
      [] k = 2 -> row.href \in {"rel", "abs"} /\ row.form = "plain" /\ row.text # <<>>
      [] k = 3 -> row.href \in {"rel", "abs"} /\ row.title # <<>>
      [] k = 4 -> /\ row.dataOrder
                  /\ row.href \in {"rel", "abs"}
                  /\ row.form = "plain"
                  /\ row.text # <<>>

\* the (appid, name) pair app_patterns[k] captures on a row it matches
PatternPair(k, row) == <<row.appid, IF k = 3 THEN row.title ELSE row.text>>

\* re.findall(app_patterns[k], table_html): the pairs in document order
RECURSIVE FindAll(_, _)
FindAll(k, rows) ==
    IF rows = <<>> THEN <<>>
    ELSE (IF PatternMatches(k, Head(rows)) THEN <<PatternPair(k, Head(rows))>> ELSE <<>>)
         \o FindAll(k, Tail(rows))

\* the loop of line 657 leaving at the first pattern that has a match
AllMatchesFirstPattern(rows) ==
    IF FindAll(1, rows) # <<>> THEN FindAll(1, rows)
    ELSE IF FindAll(2, rows) # <<>> THEN FindAll(2, rows)
    ELSE IF FindAll(3, rows) # <<>> THEN FindAll(3, rows)
    ELSE FindAll(4, rows)

\* the matches of all four patterns, in the order the two loops visit them
AllMatches(rows) ==
    FindAll(1, rows) \o FindAll(2, rows) \o FindAll(3, rows) \o FindAll(4, rows)

\* the body of the loops at lines 657-679: filter, clean, keep the first per appid
RECURSIVE CollectMatches(_, _)
CollectMatches(matches, games) ==
    IF matches = <<>> THEN games
    ELSE LET appid == Head(matches)[1]
             name == Strip(Head(matches)[2])
             kept == IF Len(name) > 1 /\ ~HasAppid(games, appid)
                     THEN Append(games,
                                 GameData(appid, RemoveSpans(CollapseWhitespace(name))))
                     ELSE games
         IN  CollectMatches(Tail(matches), kept)

\* the list `games` of _parse_games_from_current_page_simple at line 681
SimpleGames(rows) == CollectMatches(AllMatches(rows), <<>>)

(***************************************************************************)
(* Structured row strategy: _extract_game_data_from_row on one row, and the *)
(* loop over the rows at lines 625-636.  "absent" is None.                  *)
(***************************************************************************)
Absent == [appid |-> 0, name |-> <<>>]

\* lines 700-732: the selectors, then any link whose href holds /app/
HasAppLink(row) ==
    \/ row.href \in {"rel", "bare"}
    \/ row.href # "none" /\ row.title # <<>>
    \/ row.href = "abs"

extract_game_data_from_row(row) ==
    IF ~HasAppLink(row) THEN Absent
    ELSE LET text == Strip(row.text)
             name == IF text = <<>> THEN Strip(row.title) ELSE text
             \* lines 744-749: /app/<digits> in the href, else appid=<digits>
             \* or appid:<digits> somewhere in the row's markup
             appid == IF row.href \in {"rel", "abs", "bare"} THEN row.appid
                      ELSE IF row.attr = "bare" THEN row.attrid
                      ELSE 0
         IN  IF appid = 0 THEN Absent
             ELSE IF name = <<>> THEN Absent
             ELSE GameData(appid, name)

RECURSIVE StructuredGames(_)
StructuredGames(rows) ==
    IF rows = <<>> THEN <<>>
    ELSE LET game_data == extract_game_data_from_row(Head(rows))
         IN  (IF game_data # Absent THEN <<game_data>> ELSE <<>>)
             \o StructuredGames(Tail(rows))

(***************************************************************************)
(* Feed rows.  A row of the response is no list ("notlist"), a list of      *)
(* fewer than two cells ("short"), or a list whose second cell holds the    *)
(* markup `cell` and whose cells after the second are `more`.  Such a cell  *)
(* is a string of markup ("html", with its visible text) or another JSON    *)
(* value, null or a number ("other").                                       *)
(***************************************************************************)
TextCell(t) == [kind |-> "html", text |-> t]
NonTextCell == [kind |-> "other", text |-> NoText]

FeedRow(shape, cell) == [shape |-> shape, cell |-> cell, more |-> <<>>]

FeedRowWith(cell, more) == [shape |-> "cells", cell |-> cell, more |-> more]

FeedRows ==
    {FeedRow("notlist", NoLinkRow), FeedRow("short", NoLinkRow)}
    \cup {FeedRow("cells", r) : r \in Rows}

\* lines 403-414: BeautifulSoup(row_data[2]) and BeautifulSoup(row_data[3])
\* raise TypeError on a cell that is no string
AjaxCellRaises(row_data) ==
    \E i \in 1..Len(row_data.more) : i <= 2 /\ row_data.more[i].kind # "html"

\* lines 399-414: release date and reviews, NoText for an attribute not set
AjaxAdditionalInfo(row_data) ==
    [release_date |-> IF Len(row_data.more) >= 1
                      THEN Strip(row_data.more[1].text) ELSE NoText,
     reviews |-> IF Len(row_data.more) >= 2
                 THEN Strip(row_data.more[2].text) ELSE NoText]

\* _parse_ajax_game_row, lines 373-429; the handler of line 427 turns an
\* exception into None
parse_ajax_game_row(row_data) ==
    LET cell == row_data.cell
        name == Strip(cell.text)
    IN  IF row_data.shape # "cells" THEN Absent
        ELSE IF cell.href \notin {"rel", "abs"} THEN Absent
        ELSE IF name = <<>> THEN Absent
        ELSE IF AjaxCellRaises(row_data) THEN Absent
        ELSE GameData(cell.appid, name)

\* the loop at lines 357-364
RECURSIVE AjaxGames(_)
AjaxGames(rows_data) ==
    IF rows_data = <<>> THEN <<>>
    ELSE LET row_data == Head(rows_data)
             game == IF row_data.shape = "cells"
                     THEN parse_ajax_game_row(row_data)
                     ELSE Absent
         IN  (IF game # Absent THEN <<game>> ELSE <<>>) \o AjaxGames(Tail(rows_data))

(***************************************************************************)
(* Data-Feed Fetcher: _try_ajax_method.  `e` is what the browser and the    *)
(* HTTP client answer during the attempt.                                   *)
(*   nav      navigate_to_url succeeded                                     *)
(*   browser  "error": get_cookies / current_url / page_source raised       *)
(*   pattern  one of ajax_patterns matches the page source                  *)
(*   http     "transport_error" (session.get raised), "http_error"          *)
(*            (raise_for_status raised) or "ok"                             *)
(*   body     "not_json", "not_dict" (no .get), "data_not_iterable",        *)
(*            "no_data_key", or "rows": a dict whose data is `rows`         *)
(***************************************************************************)
FeedEnv(nav, browser, pattern, http, body, rows) ==
    [nav |-> nav, browser |-> browser, pattern |-> pattern, http |-> http,
     body |-> body, rows |-> rows]

NoFeed == FeedEnv(FALSE, "none", FALSE, "none", "none", <<>>)

FeedEnvs ==
    {FeedEnv(FALSE, "ok", FALSE, "ok", "rows", <<>>)}
    \cup {FeedEnv(TRUE, "error", FALSE, "ok", "rows", <<>>)}
    \cup {FeedEnv(TRUE, "ok", p, h, "rows", <<>>) :
            p \in BOOLEAN, h \in {"transport_error", "http_error"}}
    \cup {FeedEnv(TRUE, "ok", p, "ok", b, <<>>) :
            p \in BOOLEAN,
            b \in {"not_json", "not_dict", "data_not_iterable", "no_data_key"}}
    \cup {FeedEnv(TRUE, "ok", p, "ok", "rows", rows) :
            p \in BOOLEAN, rows \in SeqsUpTo(FeedRows, MaxFeedRows)}

\* an entry's link, as its path segments
TechLinks == {<<"tech", "Engine", "Unity">>, <<"tech", "Engine">>}

\* lines 318-333: a pattern match, else the conventional /tech/<c>/<t>/data/
HasAjaxUrl(link, e) ==
    \/ e.pattern
    \/ (\E i \in 1..Len(link) : link[i] = "tech") /\ Len(link) >= 3

\* how often line 353 (session.get, with start 0 and length 100) is reached:
\* once when an endpoint was determined, never before that; it is in no loop
FeedRequests(link, e) ==
    IF e.nav /\ e.browser # "error" /\ HasAjaxUrl(link, e) THEN 1 ELSE 0

\* the try block asking for the next offset as well, which the site answers
\* with the same rows
AjaxTryNextOffset(link, e) ==
    IF ~e.nav THEN Return(<<>>)
    ELSE IF e.browser = "error" THEN Raise
    ELSE IF ~HasAjaxUrl(link, e) THEN Return(<<>>)
    ELSE IF e.http # "ok" THEN Raise
    ELSE IF e.body \in {"not_json", "not_dict", "data_not_iterable"} THEN Raise
    ELSE Return(AjaxGames(IF e.body = "no_data_key" THEN <<>> ELSE e.rows \o e.rows))

\* the try block, lines 279-367
AjaxTry(link, e) ==
    IF ~e.nav THEN Return(<<>>)
    ELSE IF e.browser = "error" THEN Raise
    ELSE IF ~HasAjaxUrl(link, e) THEN Return(<<>>)
    ELSE IF e.http # "ok" THEN Raise
    ELSE IF e.body \in {"not_json", "not_dict", "data_not_iterable"} THEN Raise
    ELSE Return(AjaxGames(IF e.body = "no_data_key" THEN <<>> ELSE e.rows))

\* the try block with a handler that lets the exception through
try_ajax_method_unhandled(link, e) == AjaxTry(link, e)

\* the try block with its handler, lines 369-371
try_ajax_method(link, e) ==
    LET r == AjaxTry(link, e)
    IN  IF r.kind = "raise" THEN Return(<<>>) ELSE r

\* line 268 asking for more than one record
FeedSucceededMoreThanOne(ajax) == Len(ajax.val) > 1

\* line 268: `if ajax_games:`
FeedSucceeded(ajax) == ajax.val # <<>>

(***************************************************************************)
(* Pagination Controller: _click_next_page_data_tables.  `c` is the control *)
(* surface of the rendered page, `load` what happens after the click.       *)
(***************************************************************************)
Digits == <<"1", "2", "3", "4", "5", "6", "7", "8", "9">>

\* str.isdigit()
IsDigit(s) == \E n \in 1..Len(Digits) : Digits[n] = s

\* int(s), for a digit label
ToInt(s) == CHOOSE n \in 1..Len(Digits) : Digits[n] = s

\* str(n)
ToStr(n) == IF n \in 1..Len(Digits) THEN Digits[n] ELSE "10"

\* line 552; "rsaquo" and "raquo" stand for the two arrow glyphs U+203A and U+00BB
NextLabels == {"rsaquo", ">", "raquo", "Next"}

Button(text, disabled) == [text |-> text, disabled |-> disabled]

Controls(container, active, buttons) ==
    [container |-> container, active |-> active, buttons |-> buttons]

\* no div.dataTables_paginate within the wait
NoContainer == Controls(FALSE, "", <<>>)

\* "" as active: no button.dt-paging-button.active
ControlSet ==
    {NoContainer, Controls(TRUE, "", <<Button("1", FALSE)>>)}
    \cup {Controls(TRUE, a, b) :
            a \in {"1", "2", "ellipsis"},
            b \in {<<Button("1", FALSE)>>,
                   <<Button("1", FALSE), Button("2", FALSE)>>,
                   <<Button("2", FALSE), Button("3", FALSE)>>,
                   <<Button("2", TRUE), Button("rsaquo", FALSE)>>,
                   <<Button("lsaquo", FALSE), Button("rsaquo", FALSE)>>,
                   <<Button("lsaquo", FALSE), Button("rsaquo", TRUE)>>,
                   <<Button("rsaquo", FALSE), Button("3", TRUE)>>}}

\* what the click and the two waits after it do
Loads == {"ok", "click_error", "indicator_timeout", "rows_timeout"}

\* line 543: the button is the numbered page after current_page
IsNumbered(b, current_page) ==
    IsDigit(b.text) /\ b.text = ToStr(ToInt(current_page) + 1)

\* lines 541-546: index of the first numbered next button, 0 if none
FirstNumbered(buttons, current_page) ==
    IF \E i \in 1..Len(buttons) : IsNumbered(buttons[i], current_page)
    THEN CHOOSE i \in 1..Len(buttons) :
             /\ IsNumbered(buttons[i], current_page)
             /\ \A j \in 1..(i - 1) : ~IsNumbered(buttons[j], current_page)
    ELSE 0

\* lines 549-555: index of the first button with a generic next label, 0 if none
FirstArrow(buttons) ==
    IF \E i \in 1..Len(buttons) : buttons[i].text \in NextLabels
    THEN CHOOSE i \in 1..Len(buttons) :
             /\ buttons[i].text \in NextLabels
             /\ \A j \in 1..(i - 1) : buttons[j].text \notin NextLabels
    ELSE 0

ClickResult(ok, clicked, timeouts) ==
    [ok |-> ok, clicked |-> clicked, timeouts |-> timeouts]

\* lines 564-591 with `return True` in the handler of line 589
ActivateIgnoringTimeout(load) ==
    IF load = "click_error" THEN ClickResult(FALSE, FALSE, {})
    ELSE IF load = "indicator_timeout" THEN ClickResult(TRUE, TRUE, {"next_indicator"})
    ELSE IF load = "rows_timeout" THEN ClickResult(TRUE, TRUE, {"next_rows"})
    ELSE ClickResult(TRUE, TRUE, {})

\* lines 564-591: the click, then the two waits for the next page
Activate(load) ==
    IF load = "click_error" THEN ClickResult(FALSE, FALSE, {})
    ELSE IF load = "indicator_timeout" THEN ClickResult(FALSE, TRUE, {"next_indicator"})
    ELSE IF load = "rows_timeout" THEN ClickResult(FALSE, TRUE, {"next_rows"})
    ELSE ClickResult(TRUE, TRUE, {})

\* line 543 on a current page that is no number: int(current_page) is
\* evaluated on the first digit button met and raises ValueError
CurrentPageError(c) ==
    ~IsDigit(c.active) /\ \E i \in 1..Len(c.buttons) : IsDigit(c.buttons[i].text)

\* lines 538-555 with the two loops in the other order: arrows first
next_button_arrow_first(c) ==
    IF ~c.container \/ c.active = "" \/ CurrentPageError(c) THEN 0
    ELSE IF FirstArrow(c.buttons) # 0 THEN FirstArrow(c.buttons)
    ELSE IF IsDigit(c.active) THEN FirstNumbered(c.buttons, c.active)
    ELSE 0

\* lines 526-555: index of the button `next_button` is bound to, 0 when the
\* function leaves before (no container, no active page, ValueError) or
\* next_button stays None
next_button(c) ==
    IF ~c.container \/ c.active = "" \/ CurrentPageError(c) THEN 0
    ELSE LET numbered == IF IsDigit(c.active)
                         THEN FirstNumbered(c.buttons, c.active) ELSE 0
         IN  IF numbered # 0 THEN numbered ELSE FirstArrow(c.buttons)

\* lines 557-562 left out: the chosen button is clicked whatever its classes
click_next_page_any_button(c, load) ==
    IF ~c.container THEN ClickResult(FALSE, FALSE, {"pagination"})
    ELSE IF next_button(c) = 0 THEN ClickResult(FALSE, FALSE, {})
    ELSE Activate(load)

click_next_page_data_tables(c, load) ==
    IF ~c.container THEN ClickResult(FALSE, FALSE, {"pagination"})
    ELSE IF next_button(c) = 0 THEN ClickResult(FALSE, FALSE, {})
    ELSE IF c.buttons[next_button(c)].disabled THEN ClickResult(FALSE, FALSE, {})
    ELSE Activate(load)

(***************************************************************************)
(* Fallback Path Driver: the pieces of _get_games_selenium_fallback.        *)
(***************************************************************************)
\* lines 495-499 without the test of line 498
MergePageNoTest(games, page_games) == games \o page_games

\* lines 495-499: add only new games
RECURSIVE MergePage(_, _)
MergePage(games, page_games) ==
    IF page_games = <<>> THEN games
    ELSE MergePage(IF HasAppid(games, Head(page_games).appid)
                   THEN games
                   ELSE Append(games, Head(page_games)),
                   Tail(page_games))

\* line 487: `while page <= max_pages`
LoopContinues(page, max_pages) == page <= max_pages

(***************************************************************************)
(* State.                                                                   *)
(*   pc          where get_games_for_technology stands                      *)
(*   tech_link, max_pages   its arguments                                   *)
(*   feed        what the environment answered to the feed attempt (the     *)
(*               locals of _try_ajax_method, dropped when it has returned   *)
(*               and the pipeline has moved on)                             *)
(*   ajax_games  the result of _try_ajax_method                             *)
(*   calls       the components invoked for this entry, in order            *)
(*   page_source the rows of the page as driver.page_source gives them to   *)
(*               the parser                                                 *)
(*   rendered    index of the listing page the browser shows, 0 before the  *)
(*               listing has loaded                                         *)
(*   stack, ret  the frames of the page parser and the value or exception   *)
(*               travelling between them                                    *)
(*   structured_calls  how often the structured row strategy has run        *)
(*   games, page the driver's locals                                        *)
(*   firstSeen   the records of all parsed pages, first occurrence of each  *)
(*               identifier, in the order met (history)                     *)
(*   parsed      pages handed to the parser (history)                       *)
(*   activated   pagination controls clicked (history)                      *)
(*   timedOut    the waits of the fallback path that timed out (history)    *)
(*   fb          the result of _get_games_selenium_fallback                 *)
(*   outcome     the result of get_games_for_technology                     *)
(*   mpc         where main() stands: "start", "fetched", "loop", "write",  *)
(*               or how it ended: "returned" (an early return), "complete", *)
(*               "interrupted" (line 1028), "fatal" (line 1030)             *)
(*   args        the parsed command line                                    *)
(*   catalog     what get_all_technologies returned (history)               *)
(*   categories  main's dict of categories, each with its technologies      *)
(*   cat_index, sorted_techs   the category the loop of line 977 is in and  *)
(*               the technologies the loop of line 986 has still to visit   *)
(*   invoked     the technologies get_games_for_technology was called for,  *)
(*               in order (history)                                         *)
(*   output      the content of the output file, NoOutput while unwritten   *)
(*   driver      parser_obj.driver is set: the browser has been started     *)
(*   close_calls how many times close() has been called on the parser       *)
(*   exited      main() has left its try statement through the finally      *)
(*   dpc, din, dout   a decoder applied to one input: position, input and   *)
(*               result                                                     *)
(***************************************************************************)
VARIABLES
    pc, tech_link, max_pages, feed, ajax_games, calls, page_source, stack, ret,
    structured_calls, games, page, firstSeen, parsed, activated, timedOut, fb, outcome,
    rendered,
    \* main() walking the catalog
    mpc, args, catalog, categories, cat_index, sorted_techs, invoked, output,
    driver, close_calls, exited,
    \* one decoding of one input by one of the row decoders
    dpc, din, dout

pipelineVars ==
    <<pc, tech_link, max_pages, feed, ajax_games, calls, page_source, stack, ret,
      structured_calls, games, page, firstSeen, parsed, activated, timedOut, fb,
      outcome, rendered>>

walkerVars ==
    <<mpc, args, catalog, categories, cat_index, sorted_techs, invoked, output,
      driver, close_calls, exited>>

decoderVars == <<dpc, din, dout>>

vars == <<pipelineVars, walkerVars, decoderVars>>

inputVars == <<tech_link, max_pages>>
feedVars == <<feed, ajax_games>>
parserVars == <<page_source, stack, ret, structured_calls>>
driverVars == <<games, page, firstSeen, parsed, activated, timedOut, fb, rendered>>

\* main() is not running
WalkerIdle ==
    /\ mpc = "idle"
    /\ args = <<>>
    /\ catalog = <<>>
    /\ categories = <<>>
    /\ cat_index = 0
    /\ sorted_techs = <<>>
    /\ invoked = <<>>
    /\ output = <<>>
    /\ driver = FALSE
    /\ close_calls = 0
    /\ exited = FALSE

\* no decoder is being applied
DecoderIdle ==
    /\ dpc = "idle"
    /\ din = <<>>
    /\ dout = <<>>

\* get_games_for_technology is not running
PipelineIdle ==
    /\ pc = "idle"
    /\ tech_link = <<>>
    /\ max_pages = 0
    /\ feed = NoFeed
    /\ ajax_games = Pending
    /\ calls = <<>>
    /\ page_source = <<>>
    /\ stack = <<>>
    /\ ret = Pending
    /\ structured_calls = 0
    /\ games = <<>>
    /\ page = 0
    /\ firstSeen = <<>>
    /\ parsed = 0
    /\ activated = 0
    /\ timedOut = {}
    /\ fb = Pending
    /\ outcome = Pending
    /\ rendered = 0

Init ==
    /\ pc = "start"
    /\ tech_link \in TechLinks
    /\ max_pages \in 0..MaxBudget
    /\ feed = NoFeed
    /\ ajax_games = Pending
    /\ calls = <<>>
    /\ page_source = <<>>
    /\ stack = <<>>
    /\ ret = Pending
    /\ structured_calls = 0
    /\ games = <<>>
    /\ page = 0
    /\ firstSeen = <<>>
    /\ parsed = 0
    /\ activated = 0
    /\ timedOut = {}
    /\ fb = Pending
    /\ outcome = Pending
    /\ rendered = 0
    /\ WalkerIdle
    /\ DecoderIdle

(***************************************************************************)
(* Extraction Orchestrator: get_games_for_technology.                       *)
(***************************************************************************)
\* line 267: the feed attempt, whole
TryAjax ==
    /\ pc = "start"
    /\ \E e \in FeedEnvs :
          /\ feed' = e
          /\ ajax_games' = try_ajax_method(tech_link, e)
    /\ calls' = Append(calls, "ajax")
    /\ pc' = "ajax_returned"
    /\ UNCHANGED <<inputVars, parserVars, driverVars, outcome>>
    /\ UNCHANGED <<walkerVars, decoderVars>>

\* lines 268-274: return the feed's games, or call the fallback driver
AfterAjax ==
    /\ pc = "ajax_returned"
    /\ feed' = NoFeed
    /\ IF ajax_games.kind = "raise"
       THEN /\ outcome' = Raise
            /\ pc' = "done"
            /\ calls' = calls
       ELSE IF FeedSucceeded(ajax_games)
       THEN /\ outcome' = Return(ajax_games.val)
            /\ pc' = "done"
            /\ calls' = calls
       ELSE /\ outcome' = outcome
            /\ pc' = "fallback"
            /\ calls' = Append(calls, "fallback")
    /\ UNCHANGED <<inputVars, ajax_games, parserVars, driverVars>>
    /\ UNCHANGED <<walkerVars, decoderVars>>

\* line 274 returning the feed's list in place of the driver's
ReturnFallbackFeedList ==
    /\ pc = "fb_done"
    /\ outcome' = ajax_games
    /\ pc' = "done"
    /\ UNCHANGED <<inputVars, feedVars, calls, parserVars, driverVars>>
    /\ UNCHANGED <<walkerVars, decoderVars>>

\* line 274: whatever the fallback driver gives is the outcome
ReturnFallback ==
    /\ pc = "fb_done"
    /\ outcome' = fb
    /\ pc' = "done"
    /\ UNCHANGED <<inputVars, feedVars, calls, parserVars, driverVars>>
    /\ UNCHANGED <<walkerVars, decoderVars>>

(***************************************************************************)
(* Fallback Path Driver: _get_games_selenium_fallback.                      *)
(***************************************************************************)
\* line 491: the driver calls the page parser on the page now shown
CallParser(content) ==
    /\ page_source' = content
    /\ stack' = <<"P0">>
    /\ ret' = Pending
    /\ parsed' = parsed + 1
    /\ pc' = "parse"

\* lines 519-520
FallbackReturns(result) ==
    /\ fb' = Return(result)
    /\ pc' = "fb_done"

\* lines 431-487: navigation, the two waits, and the first loop test
FallbackLoad ==
    /\ pc = "fallback"
    /\ \E nav \in BOOLEAN, indicator \in {"ok", "timeout"}, rowsWait \in {"ok", "timeout"},
          content \in PageSet :
          IF ~nav
          THEN /\ FallbackReturns(<<>>)
               /\ UNCHANGED <<parserVars, games, page, parsed, timedOut, rendered>>
          ELSE /\ timedOut' = timedOut
                      \cup (IF indicator = "timeout" THEN {"indicator"} ELSE {})
                      \cup (IF rowsWait = "timeout" THEN {"rows"} ELSE {})
               /\ IF rowsWait = "timeout"
                  THEN /\ FallbackReturns(<<>>)
                       /\ UNCHANGED <<parserVars, games, page, parsed, rendered>>
                  ELSE /\ games' = <<>>
                       /\ page' = 1
                       /\ rendered' = 1
                       /\ IF LoopContinues(1, max_pages)
                          THEN /\ CallParser(content)
                               /\ UNCHANGED <<structured_calls, fb>>
                          ELSE /\ FallbackReturns(<<>>)
                               /\ UNCHANGED <<parserVars, parsed>>
    /\ UNCHANGED <<inputVars, feedVars, calls, firstSeen, activated, outcome>>
    /\ UNCHANGED <<walkerVars, decoderVars>>

\* the records of s whose identifier no earlier record of s has
DedupFirst(s) ==
    LET keep == {i \in 1..Len(s) : \A j \in 1..(i - 1) : s[j].appid # s[i].appid}
        F[i \in 0..Len(s)] ==
            IF i = 0 THEN <<>>
            ELSE IF i \in keep THEN Append(F[i - 1], s[i]) ELSE F[i - 1]
    IN  F[Len(s)]

\* lines 493-520 when the controller answers r: merge the page's games, end
\* the loop or go on to the next page
DriverStep(r) ==
    /\ pc = "parse"
    /\ stack = <<>>
    /\ ret.kind = "return"
    /\ activated' = activated + (IF r.clicked THEN 1 ELSE 0)
    /\ rendered' = rendered + (IF r.ok THEN 1 ELSE 0)
    /\ timedOut' = timedOut \cup r.timeouts
    /\ games' = MergePage(games, ret.val)
    /\ firstSeen' = DedupFirst(firstSeen \o ret.val)
    /\ IF ~r.ok
       THEN /\ FallbackReturns(games')
            /\ UNCHANGED <<parserVars, page, parsed>>
       ELSE /\ page' = page + 1
            /\ IF LoopContinues(page + 1, max_pages)
               THEN /\ \E content \in PageSet : CallParser(content)
                    /\ UNCHANGED <<structured_calls, fb>>
               ELSE /\ FallbackReturns(games')
                    /\ UNCHANGED <<parserVars, parsed>>
    /\ UNCHANGED <<inputVars, feedVars, calls, outcome>>
    /\ UNCHANGED <<walkerVars, decoderVars>>

\* lines 493-520: merge the page's games, ask for the next page, test the loop
FallbackStep ==
    \E r \in {click_next_page_data_tables(c, load) : c \in ControlSet, load \in Loads} :
        DriverStep(r)

\* line 491 is in no try block: an exception of the parser leaves the driver
FallbackRaise ==
    /\ pc = "parse"
    /\ stack = <<>>
    /\ ret.kind = "raise"
    /\ fb' = Raise
    /\ pc' = "fb_done"
    /\ UNCHANGED <<inputVars, feedVars, calls, parserVars, games, page, firstSeen,
                   parsed, activated, timedOut, outcome, rendered>>
    /\ UNCHANGED <<walkerVars, decoderVars>>

(***************************************************************************)
(* Cascading Parser: _parse_games_from_current_page ("P" frames) and        *)
(* _parse_games_from_current_page_simple ("S" frames) call each other.      *)
(*   "P0"  a page frame about to call the simple parser (line 612)          *)
(*   "Pw"  a page frame waiting for that call                               *)
(*   "S0"  a simple frame about to scan the page (line 644)                 *)
(*   "St"  a simple frame waiting for its call at line 688, inside `try`    *)
(*   "Sx"  a simple frame waiting for its call at line 692, in the handler  *)
(***************************************************************************)
Top == stack[Len(stack)]
Pop == SubSeq(stack, 1, Len(stack) - 1)
SetTop(f) == Append(Pop, f)

parserFrame == <<inputVars, feedVars, calls, pc, driverVars, outcome>>

\* line 612
parse_games_from_current_page ==
    /\ pc = "parse"
    /\ stack # <<>>
    /\ ret.kind = "none"
    /\ Top = "P0"
    /\ IF Len(stack) < RecursionLimit
       THEN /\ stack' = Append(SetTop("Pw"), "S0")
            /\ ret' = ret
       ELSE /\ stack' = Pop
            /\ ret' = Raise
    /\ UNCHANGED <<parserFrame, page_source, structured_calls>>
    /\ UNCHANGED <<walkerVars, decoderVars>>

\* lines 640-692, up to the call at line 688: with no game found the frame
\* calls the page parser again; when that call cannot be made (RecursionError)
\* the handler at line 690 makes it again at line 692 and the error leaves
parse_games_from_current_page_simple ==
    /\ pc = "parse"
    /\ stack # <<>>
    /\ ret.kind = "none"
    /\ Top = "S0"
    /\ LET found == SimpleGames(page_source)
       IN  IF found # <<>>
           THEN /\ stack' = Pop
                /\ ret' = Return(found)
           ELSE IF Len(stack) < RecursionLimit
           THEN /\ stack' = Append(SetTop("St"), "P0")
                /\ ret' = ret
           ELSE /\ stack' = Pop
                /\ ret' = Raise
    /\ UNCHANGED <<parserFrame, page_source, structured_calls>>
    /\ UNCHANGED <<walkerVars, decoderVars>>

\* lines 613-636 without the early return of line 614: the rows are always
\* extracted and added to what the simple parser gave
ResumeWithoutEarlyReturn ==
    /\ pc = "parse"
    /\ stack # <<>>
    /\ ret.kind = "return"
    /\ stack' = Pop
    /\ IF Top = "Pw"
       THEN /\ ret' = Return(ret.val \o StructuredGames(page_source))
            /\ structured_calls' = structured_calls + 1
       ELSE UNCHANGED <<ret, structured_calls>>
    /\ UNCHANGED <<parserFrame, page_source>>
    /\ UNCHANGED <<walkerVars, decoderVars>>

\* a callee has returned a list: lines 613-636 in a page frame, the `return`
\* of line 688 or 692 in a simple frame
Resume ==
    /\ pc = "parse"
    /\ stack # <<>>
    /\ ret.kind = "return"
    /\ stack' = Pop
    /\ IF Top = "Pw"
       THEN IF ret.val # <<>>
            THEN UNCHANGED <<ret, structured_calls>>
            ELSE /\ ret' = Return(StructuredGames(page_source))
                 /\ structured_calls' = structured_calls + 1
       ELSE UNCHANGED <<ret, structured_calls>>
    /\ UNCHANGED <<parserFrame, page_source>>
    /\ UNCHANGED <<walkerVars, decoderVars>>

\* lines 690-692: an exception of the call at line 688 is caught, and the
\* handler calls the page parser again
Catch ==
    /\ pc = "parse"
    /\ stack # <<>>
    /\ ret.kind = "raise"
    /\ Top = "St"
    /\ IF Len(stack) < RecursionLimit
       THEN /\ stack' = Append(SetTop("Sx"), "P0")
            /\ ret' = Pending
       ELSE /\ stack' = Pop
            /\ ret' = Raise
    /\ UNCHANGED <<parserFrame, page_source, structured_calls>>
    /\ UNCHANGED <<walkerVars, decoderVars>>

\* line 612 and line 692 are in no try block: the exception leaves the frame
Propagate ==
    /\ pc = "parse"
    /\ stack # <<>>
    /\ ret.kind = "raise"
    /\ Top \in {"Pw", "Sx"}
    /\ stack' = Pop
    /\ UNCHANGED <<parserFrame, page_source, ret, structured_calls>>
    /\ UNCHANGED <<walkerVars, decoderVars>>

Next ==
    \/ TryAjax
    \/ AfterAjax
    \/ FallbackLoad
    \/ parse_games_from_current_page
    \/ parse_games_from_current_page_simple
    \/ Resume
    \/ Catch
    \/ Propagate
    \/ FallbackStep
    \/ FallbackRaise
    \/ ReturnFallback

Spec == Init /\ [][Next]_vars

(***************************************************************************)
(* Properties.                                                              *)
(***************************************************************************)
NoRepeatedAppid(s) == \A i, j \in 1..Len(s) : i # j => s[i].appid # s[j].appid

Invoked(component) == \E i \in 1..Len(calls) : calls[i] = component

TimesInvoked(component) == Cardinality({i \in 1..Len(calls) : calls[i] = component})

FeedGaveRecords == ajax_games.kind = "return" /\ ajax_games.val # <<>>

\* C1: the feed attempt is the first thing get_games_for_technology does, and
\* when it gives at least one record that list is the outcome and the fallback
\* driver is never invoked: nothing of the fallback path has happened.
FeedFirst ==
    /\ calls = <<>> => pc = "start" /\ rendered = 0 /\ parsed = 0 /\ fb = Pending
    /\ calls # <<>> => calls[1] = "ajax"
    /\ FeedGaveRecords =>
          /\ ~Invoked("fallback")
          /\ rendered = 0 /\ parsed = 0 /\ fb = Pending
          /\ pc = "done" => outcome = Return(ajax_games.val)

\* the feed gave two records and they are the outcome
FeedFirstWitness ==
    /\ pc = "done"
    /\ Len(ajax_games.val) = 2
    /\ outcome = Return(ajax_games.val)
    /\ calls = <<"ajax">>

\* C2: when the feed attempt has returned no record, the fallback driver is
\* invoked exactly once and what it gives (a list, possibly empty, or its
\* exception) is the outcome of get_games_for_technology.
FallbackOnce ==
    (ajax_games.kind = "return" /\ ajax_games.val = <<>> /\ pc # "ajax_returned") =>
        /\ TimesInvoked("fallback") = 1
        /\ pc = "done" => fb # Pending /\ outcome = fb

\* an empty feed, and the outcome is the driver's non-empty list
FallbackOnceWitness ==
    /\ pc = "done"
    /\ ajax_games = Return(<<>>)
    /\ calls = <<"ajax", "fallback">>
    /\ fb.kind = "return"
    /\ fb.val # <<>>
    /\ outcome = fb

\* C3: the list the fallback driver returns holds no identifier twice, and it
\* is the records of the parsed pages in first-seen order, each identifier
\* with the record of its earliest occurrence.
DriverDedupFirstSeen ==
    fb.kind = "return" => NoRepeatedAppid(fb.val) /\ fb.val = firstSeen

\* two pages that overlap in application 1: the second page shows it renamed,
\* and the returned list keeps the first page's record
DriverDedupWitness ==
    /\ fb.kind = "return"
    /\ parsed = 2
    /\ page_source = <<AnchorRow(1, Bar), AnchorRow(2, Foo)>>
    /\ fb.val = <<GameData(1, Foo), GameData(2, Foo)>>

\* C4 (as claimed): whatever path produced it, the list get_games_for_technology
\* returns holds no identifier twice.
OutcomeNoRepeatedAppid == outcome.kind = "return" => NoRepeatedAppid(outcome.val)

ParserFinished == pc = "parse" /\ stack = <<>> /\ ret.kind # "none"

\* C5 (as claimed): when no pattern of the bulk strategy matches anything on the
\* page, the parser gives exactly what the structured row strategy extracts.
ZeroBulkGivesStructured ==
    (ParserFinished /\ AllMatches(page_source) = <<>>) =>
        ret = Return(StructuredGames(page_source))

FallbackReturnsWithinBudget ==
    pc \in {"fb_done", "done"} /\ Invoked("fallback") =>
        fb.kind = "return" /\ activated <= max_pages

\* C8 (as claimed): with budget max_pages no control is activated once the page
\* index equals max_pages, so the listing never shows a page past the budget,
\* and at most max_pages pages are parsed.
NeverPastBudget ==
    /\ parsed <= max_pages
    /\ max_pages >= 1 => activated <= max_pages - 1 /\ rendered <= max_pages

FallbackTerminal(timeouts) ==
    /\ pc \in {"fb_done", "done"}
    /\ fb = Return(firstSeen)
    /\ Cardinality(timeouts) = 1
    /\ "rows" \in timeouts => parsed = 0 /\ fb.val = <<>>

FeedFailure(e) ==
    \/ ~e.nav
    \/ e.browser = "error"
    \/ ~e.pattern /\ Len(tech_link) < 3
    \/ e.http \in {"transport_error", "http_error"}
    \/ e.body \in {"not_json", "not_dict", "data_not_iterable"}

\* C10: _try_ajax_method never raises, and on a failed navigation, a missing
\* endpoint, a transport error, an HTTP error status or an undecodable body it
\* returns the empty list.
FeedNeverRaises ==
    /\ ajax_games.kind # "raise"
    /\ (pc = "ajax_returned" /\ FeedFailure(feed)) => ajax_games = Return(<<>>)

\* the endpoint was found and answered with a body that is no JSON
FeedNeverRaisesWitness ==
    /\ pc = "ajax_returned"
    /\ feed.nav /\ feed.pattern /\ feed.http = "ok" /\ feed.body = "not_json"
    /\ ajax_games = Return(<<>>)

\* C11 (as claimed): get_games_for_technology never ends by an exception:
\* whatever the browser, the HTTP client and the site answer, its outcome is
\* a list of records.
OutcomeNeverRaises == pc = "done" => outcome.kind = "return"

(***************************************************************************)
(* Catalog Walker: main().  The catalog get_all_technologies returns is a   *)
(* dict of categories in the order of its target list, each a dict of       *)
(* technologies in document order; a technology is named by its place in    *)
(* that order (dict keys are unique).  A call of get_games_for_technology   *)
(* is one step here: it ends with one of the outcomes the pipeline has.     *)
(***************************************************************************)
\* lines 233-238: the entry of one technology
TechInfo(link, count) == [link |-> link, count |-> count, games |-> <<>>, error |-> FALSE]

Category(name, counts) ==
    [name |-> name,
     techs |-> [t \in 1..Len(counts) |-> TechInfo(<<"tech", name, t>>, counts[t])]]

\* what get_all_technologies can return: Engine with up to MaxTechs
\* technologies, then SDK with at most one, or nothing at all
Catalogs ==
    {<<>>}
    \cup {<<Category("Engine", e)>> : e \in SeqsUpTo(0..MaxCount, MaxTechs)}
    \cup {<<Category("Engine", e), Category("SDK", k)>> :
            e \in SeqsUpTo(0..MaxCount, MaxTechs), k \in SeqsUpTo(0..MaxCount, 1)}

\* the command line: --categories (split at commas), --limit-tech,
\* --min-count, --test
Args ==
    [target_categories : {<<"Engine">>, <<"SDK">>, <<"Engine", "SDK">>},
     limit_tech : 0..MaxTechs,
     min_count : 1..MaxCount,
     test : BOOLEAN]

\* how a call of get_games_for_technology can end
ExtractOutcomes ==
    {Raise, Return(<<>>), Return(<<GameData(1, Foo)>>),
     Return(<<GameData(1, Foo), GameData(2, Bar)>>)}

\* line 968: `k in target_categories`
InAllowList(name, target_categories) ==
    \E i \in 1..Len(target_categories) : target_categories[i] = name

\* line 968: the dict comprehension keeps the order of the dict
RECURSIVE FilterCategories(_, _)
FilterCategories(cats, target_categories) ==
    IF cats = <<>> THEN <<>>
    ELSE (IF InAllowList(Head(cats).name, target_categories) THEN <<Head(cats)>> ELSE <<>>)
         \o FilterCategories(Tail(cats), target_categories)

\* place of technology t in sorted(..., key=count): ascending, stable
PlaceAscending(techs, t) ==
    1 + Cardinality({u \in 1..Len(techs) :
                        \/ techs[u].count < techs[t].count
                        \/ techs[u].count = techs[t].count /\ u < t})

\* place of technology t in sorted(..., key=count, reverse=True): the sort is
\* stable, so equal counts keep the order of the dict
Place(techs, t) ==
    1 + Cardinality({u \in 1..Len(techs) :
                        \/ techs[u].count > techs[t].count
                        \/ techs[u].count = techs[t].count /\ u < t})

\* lines 980-983 sorting upwards
SortedTechsAscending(techs) ==
    [k \in 1..Len(techs) |-> CHOOSE t \in 1..Len(techs) : PlaceAscending(techs, t) = k]

\* lines 980-983: the technologies by declared count, largest first
SortedTechs(techs) ==
    [k \in 1..Len(techs) |-> CHOOSE t \in 1..Len(techs) : Place(techs, t) = k]

\* line 984: [:args.limit_tech]
TopN(sorted, limit_tech) ==
    SubSeq(sorted, 1, IF limit_tech < Len(sorted) THEN limit_tech ELSE Len(sorted))

\* line 987
BelowMinimum(tech_info, min_count) == tech_info.count < min_count

\* sum(...) of lines 878-879
RECURSIVE Sum(_)
Sum(numbers) == IF numbers = <<>> THEN 0 ELSE Head(numbers) + Sum(Tail(numbers))

\* line 878: sum(len(techs) for techs in categories.values())
TotalTechnologies(cats) == Sum([i \in 1..Len(cats) |-> Len(cats[i].techs)])

\* line 879: sum(len(tech.get('games', [])) for category ... for tech ...)
TotalGames(cats) ==
    Sum([i \in 1..Len(cats) |->
            Sum([t \in 1..Len(cats[i].techs) |-> Len(cats[i].techs[t].games)])])

\* lines 871-885 counting the technologies that have games as total_games
generate_json_output_counting_entries(cats) ==
    [total_categories |-> Len(cats),
     total_technologies |-> TotalTechnologies(cats),
     total_games |-> Sum([i \in 1..Len(cats) |->
                            Len(SelectSeq(cats[i].techs, LAMBDA tech : tech.games # <<>>))]),
     technologies |-> cats]

\* lines 871-885 leaving out the technologies that have no game
generate_json_output_nonempty(cats) ==
    [total_categories |-> Len(cats),
     total_technologies |-> TotalTechnologies(cats),
     total_games |-> TotalGames(cats),
     technologies |->
        [i \in 1..Len(cats) |->
            [cats[i] EXCEPT !.techs = SelectSeq(@, LAMBDA tech : tech.games # <<>>)]]]

\* lines 871-885: what generate_json_output writes
generate_json_output(cats) ==
    [total_categories |-> Len(cats),
     total_technologies |-> TotalTechnologies(cats),
     total_games |-> TotalGames(cats),
     technologies |-> cats]

NoOutput ==
    [total_categories |-> 0, total_technologies |-> 0, total_games |-> 0,
     technologies |-> <<>>]

\* line 1009 with a handler that catches nothing
CaughtNothing(o) == FALSE

\* line 1009: `except Exception` catches whatever the call raised
Caught(o) == o.kind = "raise"

\* lines 999 and 1009-1012 storing the number of records as the count too
AfterCallRecount(tech_info, o) ==
    IF o.kind = "raise"
    THEN [tech_info EXCEPT !.games = <<>>, !.error = TRUE, !.count = 0]
    ELSE [tech_info EXCEPT !.games = o.val, !.count = Len(o.val)]

\* lines 999 and 1009-1012: the entry after its call has ended with o
AfterCall(tech_info, o) ==
    IF o.kind = "raise"
    THEN [tech_info EXCEPT !.games = <<>>, !.error = TRUE]
    ELSE [tech_info EXCEPT !.games = o.val]

\* the loop of line 977 moves to the category after cat_index, or ends
EnterCategory(cats, k, limit_tech) ==
    IF k <= Len(cats)
    THEN /\ cat_index' = k
         /\ sorted_techs' = TopN(SortedTechs(cats[k].techs), limit_tech)
         /\ mpc' = "loop"
    ELSE /\ cat_index' = k
         /\ sorted_techs' = <<>>
         /\ mpc' = "write"

WalkerInit ==
    /\ PipelineIdle
    /\ DecoderIdle
    /\ mpc = "start"
    /\ args \in Args
    /\ catalog = <<>>
    /\ categories = <<>>
    /\ cat_index = 0
    /\ sorted_techs = <<>>
    /\ invoked = <<>>
    /\ output = NoOutput
    /\ driver = FALSE
    /\ close_calls = 0
    /\ exited = FALSE

\* lines 85-100: setup_driver starts the browser (line 87) and prepares it
\* (line 90); it answers True when both succeeded, and a browser that was
\* started stays in self.driver when preparing it failed
SetupDriver == {[driver |-> started, ok |-> started /\ prepared] :
                   started \in BOOLEAN, prepared \in BOOLEAN}

\* lines 955-960: the browser is set up and the catalog is fetched
GetAllTechnologies ==
    /\ mpc = "start"
    /\ \E setup \in SetupDriver, found \in Catalogs :
          /\ driver' = setup.driver
          /\ IF ~setup.ok \/ found = <<>>
             THEN /\ mpc' = "returned"
                  /\ UNCHANGED <<catalog, categories>>
             ELSE /\ mpc' = "fetched"
                  /\ catalog' = found
                  /\ categories' = found
    /\ UNCHANGED <<args, cat_index, sorted_techs, invoked, output, close_calls, exited>>
    /\ UNCHANGED <<pipelineVars, decoderVars>>

\* lines 967-977: the allow-list, then the first category or the output
SelectCategories ==
    /\ mpc = "fetched"
    /\ categories' = FilterCategories(categories, args.target_categories)
    /\ IF categories' = <<>>
       THEN /\ mpc' = "returned"
            /\ UNCHANGED <<cat_index, sorted_techs>>
       ELSE IF args.test
       THEN /\ mpc' = "write"
            /\ UNCHANGED <<cat_index, sorted_techs>>
       ELSE EnterCategory(categories', 1, args.limit_tech)
    /\ UNCHANGED <<args, catalog, invoked, output, driver, close_calls, exited>>
    /\ UNCHANGED <<pipelineVars, decoderVars>>

\* lines 977-984: the technologies of a category are done, the next begins
NextCategory ==
    /\ mpc = "loop"
    /\ sorted_techs = <<>>
    /\ EnterCategory(categories, cat_index + 1, args.limit_tech)
    /\ UNCHANGED <<args, catalog, categories, invoked, output, driver, close_calls,
                   exited>>
    /\ UNCHANGED <<pipelineVars, decoderVars>>

\* lines 986-1012: one technology of the category is skipped or extracted
ProcessTech ==
    /\ mpc = "loop"
    /\ sorted_techs # <<>>
    /\ LET t == Head(sorted_techs)
           tech_info == categories[cat_index].techs[t]
       IN  IF BelowMinimum(tech_info, args.min_count)
           THEN /\ sorted_techs' = Tail(sorted_techs)
                /\ UNCHANGED <<mpc, categories, invoked>>
           ELSE \E o \in ExtractOutcomes :
                   /\ invoked' = Append(invoked, <<categories[cat_index].name, t>>)
                   /\ IF o.kind = "raise" /\ ~Caught(o)
                      THEN /\ mpc' = "fatal"
                           /\ UNCHANGED <<categories, sorted_techs>>
                      ELSE /\ categories' =
                                [categories EXCEPT ![cat_index].techs[t] = AfterCall(@, o)]
                           /\ sorted_techs' = Tail(sorted_techs)
                           /\ mpc' = mpc
    /\ UNCHANGED <<args, catalog, cat_index, output, driver, close_calls, exited>>
    /\ UNCHANGED <<pipelineVars, decoderVars>>

\* lines 1014-1015 and 1030: the output file is written, or writing it fails
GenerateOutput ==
    /\ mpc = "write"
    /\ \E written \in BOOLEAN :
          IF written
          THEN /\ output' = generate_json_output(categories)
               /\ mpc' = "complete"
          ELSE /\ output' = output
               /\ mpc' = "fatal"
    /\ UNCHANGED <<args, catalog, categories, cat_index, sorted_techs, invoked,
                   driver, close_calls, exited>>
    /\ UNCHANGED <<pipelineVars, decoderVars>>

\* lines 1028-1029: KeyboardInterrupt anywhere in the try block; one that
\* arrives while setup_driver runs finds the browser started or not
Interrupt ==
    /\ mpc \in {"start", "fetched", "loop", "write"}
    /\ mpc' = "interrupted"
    /\ IF mpc = "start"
       THEN \E setup \in SetupDriver : driver' = setup.driver
       ELSE driver' = driver
    /\ UNCHANGED <<args, catalog, categories, cat_index, sorted_techs, invoked, output,
                   close_calls, exited>>
    /\ UNCHANGED <<pipelineVars, decoderVars>>

\* lines 1034-1037 with a finally block that leaves the browser open
finally_without_close(drv, n) == n

\* lines 1034-1037 and 906-913: the number of close() calls after the finally
\* block, n before it; close() is called when parser_obj.driver is set, and
\* what quit() raises is caught inside close()
finally_block(drv, n) == IF drv THEN n + 1 ELSE n

\* the ways main() leaves its try block: a return (lines 957, 963, 972), the
\* end of the block, KeyboardInterrupt (line 1028), Exception (line 1030)
Exits == {"returned", "complete", "interrupted", "fatal"}

\* lines 1034-1037: every way out of the try block runs the finally block
Finally ==
    /\ mpc \in Exits
    /\ ~exited
    /\ close_calls' = finally_block(driver, close_calls)
    /\ exited' = TRUE
    /\ UNCHANGED <<mpc, args, catalog, categories, cat_index, sorted_techs, invoked,
                   output, driver>>
    /\ UNCHANGED <<pipelineVars, decoderVars>>

WalkerNext ==
    \/ GetAllTechnologies
    \/ SelectCategories
    \/ NextCategory
    \/ ProcessTech
    \/ GenerateOutput
    \/ Interrupt
    \/ Finally

WalkerSpec == WalkerInit /\ [][WalkerNext]_vars

(***************************************************************************)
(* Properties of the walker.                                                *)
(***************************************************************************)
\* the technologies of the category `name` in cats, none if it is not there
TechsOf(cats, name) ==
    IF \E i \in 1..Len(cats) : cats[i].name = name
    THEN cats[CHOOSE i \in 1..Len(cats) : cats[i].name = name].techs
    ELSE <<>>

\* the technologies of a category with a larger declared count than t
LargerThan(techs, t) == {u \in 1..Len(techs) : techs[u].count > techs[t].count}

WasInvoked(name, t) == \E k \in 1..Len(invoked) : invoked[k] = <<name, t>>

\* C12 (as claimed): when the run is interrupted, the record list of every
\* technology extracted so far is in the output file.
InterruptFlushes ==
    mpc = "interrupted" =>
        \A k \in 1..Len(invoked) :
            LET name == invoked[k][1]
                t == invoked[k][2]
                kept == TechsOf(categories, name)[t].games
                out == TechsOf(output.technologies, name)
            IN  kept # <<>> => t \in 1..Len(out) /\ out[t].games = kept

AllowListed(name) ==
    name \in {args.target_categories[i] : i \in 1..Len(args.target_categories)}

\* C13: get_games_for_technology is called for a technology only if its
\* category is in the allow-list, fewer than limit_tech technologies of its
\* category declare a larger count, and its count is at least min_count; at
\* most limit_tech technologies of a category are called, none twice, and
\* within a category the calls go by non-increasing declared count.
WalkerSelects ==
    /\ \A k \in 1..Len(invoked) :
          LET name == invoked[k][1]
              t == invoked[k][2]
              techs == TechsOf(catalog, name)
          IN  /\ AllowListed(name)
              /\ t \in 1..Len(techs)
              /\ techs[t].count >= args.min_count
              /\ Cardinality(LargerThan(techs, t)) < args.limit_tech
              /\ \A j \in 1..(k - 1) :
                    /\ invoked[j] # invoked[k]
                    /\ invoked[j][1] = name => techs[invoked[j][2]].count >= techs[t].count
    /\ \A i \in 1..Len(catalog) :
          Cardinality({k \in 1..Len(invoked) : invoked[k][1] = catalog[i].name})
              <= args.limit_tech

\* the two technologies of Engine were called, the later-listed one first,
\* and then the one of SDK, which declares more than the last of Engine
WalkerSelectsWitness ==
    /\ invoked = << <<"Engine", 2>>, <<"Engine", 1>>, <<"SDK", 1>> >>
    /\ TechsOf(catalog, "SDK")[1].count > TechsOf(catalog, "Engine")[1].count

\* C14: the written output holds every technology of every allow-listed
\* category of the catalog, and a technology below min_count, outside the
\* limit_tech largest of its category, or never extracted is there with an
\* empty list of games; the first two kinds were never extracted.
SkippedKeptEmpty ==
    mpc = "complete" =>
        \A i \in 1..Len(catalog) :
            LET name == catalog[i].name
                techs == catalog[i].techs
                out == TechsOf(output.technologies, name)
            IN  AllowListed(name) =>
                  /\ \E j \in 1..Len(output.technologies) : output.technologies[j].name = name
                  /\ Len(out) = Len(techs)
                  /\ \A t \in 1..Len(techs) :
                        LET skipped == \/ techs[t].count < args.min_count
                                       \/ Cardinality(LargerThan(techs, t)) >= args.limit_tech
                        IN  /\ out[t].count = techs[t].count
                            /\ skipped => ~WasInvoked(name, t)
                            /\ (skipped \/ ~WasInvoked(name, t)) => out[t].games = <<>>

\* SDK is not allow-listed; of the two technologies of Engine the larger was
\* extracted with a record and the other, beyond limit_tech = 1 though above
\* the threshold, is in the output with no game
SkippedKeptEmptyWitness ==
    /\ mpc = "complete"
    /\ args.limit_tech = 1
    /\ Len(output.technologies) = 1
    /\ Len(catalog) = 2
    /\ LET out == TechsOf(output.technologies, "Engine")
       IN  /\ Len(out) = 2
           /\ out[1].count < out[2].count
           /\ out[1].count >= args.min_count
           /\ out[1].games = <<>>
           /\ out[2].games # <<>>

\* the place the walker gives technology t among those of its category
Rank(techs, t) ==
    1 + Cardinality(LargerThan(techs, t))
      + Cardinality({u \in 1..(t - 1) : techs[u].count = techs[t].count})

\* C15: an exception of get_games_for_technology leaves its technology with an
\* empty list and an error, and does not end the run: when the loops are over
\* every selected technology has been called, and the output file is written
\* with main's categories unless the write itself fails.
FailureDoesNotAbort ==
    /\ \A i \in 1..Len(categories) : \A t \in 1..Len(categories[i].techs) :
          categories[i].techs[t].error =>
              /\ categories[i].techs[t].games = <<>>
              /\ WasInvoked(categories[i].name, t)
    /\ (mpc \in {"write", "complete", "fatal"} /\ ~args.test) =>
          \A i \in 1..Len(categories) : \A t \in 1..Len(categories[i].techs) :
              (/\ categories[i].techs[t].count >= args.min_count
               /\ Rank(categories[i].techs, t) <= args.limit_tech)
                  => WasInvoked(categories[i].name, t)
    /\ mpc = "complete" => output.technologies = categories

\* the first call failed, the second gave a record, and both are written
FailureDoesNotAbortWitness ==
    /\ mpc = "complete"
    /\ Len(invoked) = 2
    /\ invoked[1][1] = invoked[2][1]
    /\ LET out == TechsOf(output.technologies, invoked[1][1])
       IN  /\ out[invoked[1][2]].error
           /\ out[invoked[1][2]].games = <<>>
           /\ out[invoked[2][2]].games # <<>>

(***************************************************************************)
(* The three decoders, each applied to one input: the feed row loop of      *)
(* _try_ajax_method with _parse_ajax_game_row, the bulk patterns of         *)
(* _parse_games_from_current_page_simple, and _extract_game_data_from_row.  *)
(* A record is the dict the decoder builds: appid and name (`game`), the    *)
(* three links, and the optional attributes.  An address is written as its  *)
(* host and path with the identifier apart.                                 *)
(***************************************************************************)
Record(game, links, info) == [game |-> game, links |-> links, info |-> info]

NoInfo == [release_date |-> NoText, reviews |-> NoText]

NoRecord == Record(Absent, <<>>, NoInfo)

\* lines 419-421 and 671-673: the links built from the identifier
DerivedLinks(appid) ==
    [steam_link |-> <<"store.steampowered.com/app", appid>>,
     steamdb_link |-> <<"steamdb.info/app", appid>>,
     image_link |-> <<"steamstatic.com/apps/capsule_231x87", appid>>]

\* lines 757-793 and 847: the store icon's address and the image's src take
\* the place of the built links when the row has them
RowLinks(row, appid) ==
    [steam_link |-> IF row.store = "other"
                    THEN <<"store.steampowered.com/other", row.appid>>
                    ELSE <<"store.steampowered.com/app", appid>>,
     steamdb_link |-> <<"steamdb.info/app", appid>>,
     image_link |-> IF row.img = "other"
                    THEN <<"img src", row.appid>>
                    ELSE <<"steamstatic.com/apps/capsule_231x87", appid>>]

\* lines 416-425: the record of one feed row, NoRecord for None
ajax_game_record(row_data) ==
    LET game == parse_ajax_game_row(row_data)
    IN  IF game = Absent THEN NoRecord
        ELSE Record(game, DerivedLinks(game.appid), AjaxAdditionalInfo(row_data))

\* lines 357-367: the records of the rows of a response, in order
RECURSIVE AjaxRecords(_)
AjaxRecords(rows_data) ==
    IF rows_data = <<>> THEN <<>>
    ELSE LET row_data == Head(rows_data)
             game == IF row_data.shape = "cells"
                     THEN ajax_game_record(row_data)
                     ELSE NoRecord
         IN  (IF game # NoRecord THEN <<game>> ELSE <<>>) \o AjaxRecords(Tail(rows_data))

\* lines 668-674: the records of the bulk patterns on a page
SimpleRecords(rows) ==
    LET found == SimpleGames(rows)
    IN  [i \in 1..Len(found) |-> Record(found[i], DerivedLinks(found[i].appid), NoInfo)]

\* lines 849-859: the record of one table row, NoRecord for None (the
\* attributes of lines 795-844 are left out)
extract_record_from_row(row) ==
    LET game == extract_game_data_from_row(row)
    IN  IF game = Absent THEN NoRecord
        ELSE Record(game, RowLinks(row, game.appid), NoInfo)

\* the date and the review count a feed cell shows
Date == <<"2", "0", "2", "1">>

\* the cells a feed row can have after the second
MoreCells == {TextCell(Date), TextCell(Padded), TextCell(NoText), NonTextCell}

\* the rows of a feed response the decoder is tried on
DecoderFeedRows ==
    FeedRows
    \cup {FeedRow("cells", [AnchorRow(1, Foo) EXCEPT !.href = h]) : h \in {"abs", "bare"}}
    \cup {FeedRow("cells", AnchorRow(1, t)) : t \in {NoText, Padded}}
    \* a cell whose link shows its name in the title only, and a cell whose
    \* link is no app link while its markup holds appid=<digits>
    \cup {FeedRow("cells", [AnchorRow(1, NoText) EXCEPT !.title = Bar]),
          FeedRow("cells", [NoLinkRow EXCEPT !.href = "other", !.text = Foo, !.title = Bar,
                                              !.attr = "bare", !.attrid = 1])}
    \cup {FeedRowWith(AnchorRow(1, Foo), <<third>>) : third \in MoreCells}
    \cup {FeedRowWith(AnchorRow(1, Foo), <<TextCell(Date), fourth>>) : fourth \in MoreCells}
    \cup {FeedRowWith(AnchorRow(1, Foo), <<third, TextCell(Padded)>>) :
              third \in {TextCell(NoText), NonTextCell}}
    \cup {FeedRowWith(AnchorRow(1, Foo),
                       <<TextCell(Date), TextCell(Padded), TextCell(Foo)>>)}

\* the table rows the decoders are tried on
DecoderRows ==
    Rows
    \cup {[AnchorRow(1, Foo) EXCEPT !.store = st, !.img = im] :
              st \in {"none", "canonical", "other"}, im \in {"none", "capsule", "other"}}
    \cup {[AnchorRow(1, t) EXCEPT !.title = ti] :
              t \in {NoText, Padded, <<" ">>}, ti \in {NoText, Bar, SpanOnly}}
    \cup {[AnchorRow(1, Foo) EXCEPT !.href = h, !.form = f, !.dataOrder = o] :
              h \in {"abs", "bare"}, f \in {"plain", "wrapped"}, o \in BOOLEAN}
    \cup {[NoLinkRow EXCEPT !.href = "other", !.text = Foo, !.title = ti,
                             !.attr = a, !.attrid = i] :
              ti \in {NoText, Bar}, a \in {"none", "quoted", "bare"}, i \in Ids}
    \cup {[NoLinkRow EXCEPT !.attr = a, !.attrid = 1] : a \in {"quoted", "bare"}}

\* a row element that has left the document when the loop comes to it (the
\* table was redrawn): every access to it raises
StaleRow == [AnchorRow(1, Foo) EXCEPT !.href = "stale"]

\* line 698 raises on such a row; the handler of lines 864-867 reads the
\* row's outerHTML for its log line and raises again
RowRaises(row) == row.href = "stale"

\* the loop of lines 625-634 leaving at the first row that raises
RECURSIVE StructuredRecordsAbort(_)
StructuredRecordsAbort(rows) ==
    IF rows = <<>> THEN <<>>
    ELSE IF RowRaises(Head(rows)) THEN <<>>
    ELSE LET game_data == extract_record_from_row(Head(rows))
         IN  (IF game_data # NoRecord THEN <<game_data>> ELSE <<>>)
             \o StructuredRecordsAbort(Tail(rows))

\* lines 625-636: the loop over the rows; a row that raises is logged and
\* passed over (lines 632-634), a row that gives None adds nothing
RECURSIVE StructuredRecords(_)
StructuredRecords(rows) ==
    IF rows = <<>> THEN <<>>
    ELSE LET game_data == IF RowRaises(Head(rows)) THEN NoRecord
                          ELSE extract_record_from_row(Head(rows))
         IN  (IF game_data # NoRecord THEN <<game_data>> ELSE <<>>)
             \o StructuredRecords(Tail(rows))

\* the rows find_elements can give at line 619 when the structured strategy
\* runs: rows the bulk strategy finds nothing on (line 613), and a stale row
TableRows == {row \in DecoderRows : SimpleGames(<<row>>) = <<>>} \cup {StaleRow}

\* the rows of the pages the bulk strategy is tried on: those of DecoderRows
\* that differ in what the patterns read (link, text, title, data-order)
BulkRows ==
    {row \in DecoderRows : row.store = "none" /\ row.img = "none" /\ row.attr = "none"}

\* the buttons a pagination container can hold
PageButtons ==
    {Button(t, d) : t \in {"2", "3", "lsaquo", "rsaquo"}, d \in BOOLEAN}
    \cup {Button("Next", FALSE)}

\* the control surfaces the controller is tried on
DecoderControls ==
    ControlSet
    \cup {Controls(TRUE, a, b) :
            a \in {"", "1", "2", "ellipsis"}, b \in SeqsUpTo(PageButtons, MaxButtons)}

DecoderInput(kind, val) == [kind |-> kind, val |-> val]

DecoderInputs ==
    {DecoderInput("feed", rows_data) : rows_data \in SeqsUpTo(DecoderFeedRows, MaxFeedRows)}
    \cup {DecoderInput("page", rows) : rows \in SeqsUpTo(BulkRows, MaxRows) \ {<<>>}}
    \cup {DecoderInput("row", row) : row \in DecoderRows}
    \cup {DecoderInput("controls", [c |-> c, load |-> load]) :
              c \in DecoderControls, load \in {"ok", "rows_timeout"}}
    \cup {DecoderInput("table", rows) : rows \in SeqsUpTo(TableRows, MaxRows)}

DecoderInit ==
    /\ PipelineIdle
    /\ WalkerIdle
    /\ dpc = "input"
    /\ din \in DecoderInputs
    /\ dout = <<>>

\* lines 357-367 on the rows of one response
DecodeFeed ==
    /\ dpc = "input"
    /\ din.kind = "feed"
    /\ dout' = AjaxRecords(din.val)
    /\ dpc' = "done"
    /\ UNCHANGED <<din, pipelineVars, walkerVars>>

\* lines 640-681 on one page
ParsePage ==
    /\ dpc = "input"
    /\ din.kind = "page"
    /\ dout' = SimpleRecords(din.val)
    /\ dpc' = "done"
    /\ UNCHANGED <<din, pipelineVars, walkerVars>>

\* _extract_game_data_from_row on one row
ExtractRow ==
    /\ dpc = "input"
    /\ din.kind = "row"
    /\ dout' = (IF extract_record_from_row(din.val) = NoRecord
                THEN <<>>
                ELSE <<extract_record_from_row(din.val)>>)
    /\ dpc' = "done"
    /\ UNCHANGED <<din, pipelineVars, walkerVars>>

\* lines 616-636 on the rows of one page
ParseRows ==
    /\ dpc = "input"
    /\ din.kind = "table"
    /\ dout' = StructuredRecords(din.val)
    /\ dpc' = "done"
    /\ UNCHANGED <<din, pipelineVars, walkerVars>>

\* _click_next_page_data_tables on one control surface: the button chosen
\* and what the function answers
ClickNext ==
    /\ dpc = "input"
    /\ din.kind = "controls"
    /\ dout' = <<[next |-> next_button(din.val.c),
                  result |-> click_next_page_data_tables(din.val.c, din.val.load)]>>
    /\ dpc' = "done"
    /\ UNCHANGED <<din, pipelineVars, walkerVars>>

DecoderNext ==
    \/ ClickNext
    \/ DecodeFeed
    \/ ParsePage
    \/ ExtractRow
    \/ ParseRows

DecoderSpec == DecoderInit /\ [][DecoderNext]_vars

(***************************************************************************)
(* Properties of the decoders.                                              *)
(***************************************************************************)
Decoded(kind) == dpc = "done" /\ din.kind = kind

\* C16 (as claimed): the three links of a record are those every decoder
\* gives for its identifier: the links the feed decoder builds for it.
LinksFromIdentifier ==
    dpc = "done" =>
        \A i \in 1..Len(dout) :
            dout[i].links
                = ajax_game_record(FeedRow("cells", AnchorRow(dout[i].game.appid, Foo))).links

\* the row has an anchor that shows a name
RowHasName(row) ==
    row.href # "none" /\ (Strip(row.text) # <<>> \/ Strip(row.title) # <<>>)

\* C17 (as claimed): the row extractor takes the identifier from the app link
\* of the row; without an app link it takes it from an appid attribute of the
\* row, so that such a row with a name gives a record; it gives none only
\* when the row has no name or neither an app link nor such an attribute.
IdentifierCascade ==
    Decoded("row") =>
        LET row == din.val
            linked == row.href \in {"rel", "abs", "bare"}
        IN  /\ (linked /\ RowHasName(row)) =>
                   Len(dout) = 1 /\ dout[1].game.appid = row.appid
            /\ (~linked /\ row.attr # "none" /\ RowHasName(row)) =>
                   Len(dout) = 1 /\ dout[1].game.appid = row.attrid
            /\ dout = <<>> => ~RowHasName(row) \/ (~linked /\ row.attr = "none")

\* C18 (as claimed): every record of every decoder has an identifier and a
\* name that is not empty, and a table row whose anchor shows no text and has
\* no title gives no record.
RecordsNamed ==
    /\ dpc = "done" =>
          \A i \in 1..Len(dout) : dout[i].game.appid \in Ids /\ dout[i].game.name # <<>>
    /\ (Decoded("row") /\ Strip(din.val.text) = <<>> /\ Strip(din.val.title) = <<>>) =>
          dout = <<>>
    /\ (Decoded("page") /\ \A i \in 1..Len(din.val) :
                               Strip(din.val[i].text) = <<>> /\ Strip(din.val[i].title) = <<>>) =>
          dout = <<>>

\* the feed row is a list of at least two cells whose second cell holds an
\* /app/<digits>/ link that shows a name
Resolvable(row_data) ==
    /\ row_data.shape = "cells"
    /\ row_data.cell.href \in {"rel", "abs"}
    /\ Strip(row_data.cell.text) # <<>>

\* the resolvable rows of a response, in order
RECURSIVE ResolvableRows(_)
ResolvableRows(rows_data) ==
    IF rows_data = <<>> THEN <<>>
    ELSE (IF Resolvable(Head(rows_data)) THEN <<Head(rows_data)>> ELSE <<>>)
         \o ResolvableRows(Tail(rows_data))

\* C19 (as claimed): decoding a response skips the rows that are not
\* resolvable and nothing else: the list is the decodings, in order, of the
\* resolvable rows.
FeedSkipsUnresolvable ==
    Decoded("feed") =>
        LET kept == ResolvableRows(din.val)
        IN  /\ Len(dout) = Len(kept)
            /\ \A n \in 1..Len(dout) :
                  dout[n].game = GameData(kept[n].cell.appid, Strip(kept[n].cell.text))

\* the visible text of the n-th cell after the second, nothing when the row
\* has no such cell or the cell shows nothing
PlainText(row_data, n) ==
    IF n <= Len(row_data.more) THEN Strip(row_data.more[n].text) ELSE NoText

\* C20 (as claimed): a response of one resolvable row decodes to one record:
\* the link's identifier, the link's text, the text of the third cell as
\* release date and of the fourth as reviews, each left out when the cell is
\* missing or shows nothing.
FeedRowDecodes ==
    (Decoded("feed") /\ Len(din.val) = 1 /\ Resolvable(din.val[1])) =>
        /\ Len(dout) = 1
        /\ dout[1].game.appid = din.val[1].cell.appid
        /\ dout[1].game.name = Strip(din.val[1].cell.text)
        /\ dout[1].info.release_date = PlainText(din.val[1], 1)
        /\ dout[1].info.reviews = PlainText(din.val[1], 2)

(***************************************************************************)
(* Properties of the output file.                                           *)
(***************************************************************************)
\* the places of the records of the written mapping: category, technology,
\* place in the technology's list
WrittenGames ==
    {p \in (1..MaxTechs) \X (1..(MaxTechs + 1)) \X (1..(MaxId + 1)) :
        /\ p[1] <= Len(output.technologies)
        /\ p[2] <= Len(output.technologies[p[1]].techs)
        /\ p[3] <= Len(output.technologies[p[1]].techs[p[2]].games)}

\* the places of the technologies of the written mapping
WrittenTechs ==
    {p \in (1..MaxTechs) \X (1..(MaxTechs + 1)) :
        /\ p[1] <= Len(output.technologies)
        /\ p[2] <= Len(output.technologies[p[1]].techs)}

\* C21: in the written output the counts of the metadata are those of the
\* mapping written with them: the number of categories, the number of
\* technologies over all categories, and the number of records over all
\* technologies.
CountsAgree ==
    mpc = "complete" =>
        /\ output.total_categories = Len(output.technologies)
        /\ output.total_technologies = Cardinality(WrittenTechs)
        /\ output.total_games = Cardinality(WrittenGames)

\* an output with two categories, technologies in both, a technology with
\* two records and one with none
CountsAgreeWitness ==
    /\ mpc = "complete"
    /\ output.total_categories = 2
    /\ output.total_technologies >= 3
    /\ output.total_games >= 3
    /\ \E p \in WrittenTechs : output.technologies[p[1]].techs[p[2]].games = <<>>

(***************************************************************************)
(* Properties of the bulk pattern strategy.                                 *)
(***************************************************************************)
\* the records of the collection with their links and attributes left out
Games(records) == [i \in 1..Len(records) |-> records[i].game]

\* the identifiers the k-th pattern captures on the page
PatternIds(k, rows) == {rows[r].appid : r \in {q \in 1..Len(rows) : PatternMatches(k, rows[q])}}

\* the first pattern that captures a pair on the page, 0 when none does
FirstPattern(rows) ==
    IF \E k \in 1..4 : PatternIds(k, rows) # {}
    THEN CHOOSE k \in 1..4 :
            PatternIds(k, rows) # {} /\ \A j \in 1..(k - 1) : PatternIds(j, rows) = {}
    ELSE 0

\* C22 (as claimed): the records of the bulk strategy come only from the
\* first pattern that captures a pair on the page; later patterns give no
\* identifier.
BulkFirstPatternOnly ==
    Decoded("page") =>
        \A i \in 1..Len(dout) :
            /\ FirstPattern(din.val) # 0
            /\ dout[i].game.appid \in PatternIds(FirstPattern(din.val), din.val)

\* the captures the strategy can make a record of: pattern k on row r gives a
\* name of more than one character
Usable(rows) ==
    {u \in (1..4) \X (1..Len(rows)) :
        /\ PatternMatches(u[1], rows[u[2]])
        /\ Len(Strip(PatternPair(u[1], rows[u[2]])[2])) > 1}

\* capture u is visited before capture v: patterns in order, rows in order
Before(u, v) == u[1] < v[1] \/ (u[1] = v[1] /\ u[2] < v[2])

\* the first usable capture of the identifier on the page
FirstUse(rows, appid) ==
    CHOOSE u \in Usable(rows) :
        /\ rows[u[2]].appid = appid
        /\ \A v \in Usable(rows) : rows[v[2]].appid = appid => (u = v \/ Before(u, v))

\* C22 (amended): the bulk strategy applies every pattern, in order: it gives
\* one record for each identifier some pattern captures with a usable name,
\* made of the first such capture, the records in the order of these first
\* captures; a later pattern adds the identifiers no earlier capture gave.
BulkAllPatterns ==
    Decoded("page") =>
        LET rows == din.val
        IN  /\ {dout[i].game.appid : i \in 1..Len(dout)}
                   = {rows[u[2]].appid : u \in Usable(rows)}
            /\ \A i \in 1..Len(dout) :
                   LET u == FirstUse(rows, dout[i].game.appid)
                   IN  /\ dout[i].game.name
                              = RemoveSpans(CollapseWhitespace(Strip(PatternPair(u[1], rows[u[2]])[2])))
                       /\ \A j \in (i + 1)..Len(dout) :
                              /\ dout[j].game.appid # dout[i].game.appid
                              /\ Before(u, FirstUse(rows, dout[j].game.appid))

\* a page whose first row the first pattern captures and whose second row,
\* of another application, only the title pattern captures: both are records
BulkAllPatternsWitness ==
    /\ Decoded("page")
    /\ Len(din.val) = 2
    /\ Len(dout) = 2
    /\ PatternMatches(1, din.val[1])
    /\ \A k \in {1, 2, 4} : ~PatternMatches(k, din.val[2])
    /\ PatternMatches(3, din.val[2])
    /\ dout[2].game.appid = din.val[2].appid

NumberedNext(c) ==
    {i \in 1..Len(c.buttons) :
        /\ IsDigit(c.active)
        /\ c.buttons[i].text = ToStr(ToInt(c.active) + 1)}

\* C24: a button labelled current page + 1 is chosen whenever the surface
\* shows one, wherever the generic next buttons stand; a generic next button
\* is chosen only when no button is labelled current page + 1.
NumberedBeforeArrow ==
    Decoded("controls") =>
        LET c == din.val.c
            next == dout[1].next
        IN  /\ (c.container /\ NumberedNext(c) # {}) => next \in NumberedNext(c)
            /\ (next # 0 /\ c.buttons[next].text \in NextLabels) => NumberedNext(c) = {}

\* a surface with a generic next button standing before the button of the
\* next page: the numbered button is chosen
NumberedBeforeArrowWitness ==
    /\ Decoded("controls")
    /\ LET c == din.val.c
       IN  /\ Len(c.buttons) = 2
           /\ c.buttons[1].text \in NextLabels
           /\ ~c.buttons[1].disabled
           /\ 2 \in NumberedNext(c)
           /\ dout[1].next = 2

\* the surface offers no button to advance with: no pagination container, no
\* active page, or neither a button of the next page nor a generic next one
NoCandidate(c) ==
    \/ ~c.container
    \/ c.active = ""
    \/ NumberedNext(c) = {} /\ \A i \in 1..Len(c.buttons) : c.buttons[i].text \notin NextLabels

\* the button chosen on the surface carries the disabled marker
DisabledChosen(c) == next_button(c) # 0 /\ c.buttons[next_button(c)].disabled

\* what the controller answers on the surfaces whose chosen button is
\* disabled or that offer no candidate, whatever a click would have led to
TerminalAnswers ==
    {click_next_page_data_tables(c, load) :
        c \in {d \in ControlSet : NoCandidate(d) \/ DisabledChosen(d)}, load \in Loads}

\* C25: on a surface whose chosen button is disabled or that offers no
\* candidate, the controller answers Terminal and no button is activated; the
\* driver leaves the loop and returns the records collected so far.
TerminalWithoutActivation ==
    [][(pc = "parse" /\ stack = <<>> /\ ret.kind = "return") =>
          \A r \in TerminalAnswers :
              DriverStep(r)
              => /\ activated' = activated
                 /\ rendered' = rendered
                 /\ timedOut' \subseteq timedOut \cup {"pagination"}
                 /\ pc' = "fb_done"
                 /\ fb' = Return(MergePage(games, ret.val))]_vars

\* the driver has returned the records of the first page though its budget
\* allowed more: no button was activated and no wait timed out
TerminalWithoutActivationWitness ==
    /\ pc = "fb_done"
    /\ fb.kind = "return"
    /\ fb.val # <<>>
    /\ parsed = 1
    /\ max_pages > 1
    /\ activated = 0
    /\ timedOut = {}

\* C26 (as claimed): a page that gives no record, or only records already
\* collected, does not end the loop of the fallback driver: once a page has
\* been parsed the loop ends only by the controller's Terminal answer (the
\* page index stays at the page parsed last) or by the budget (the page index
\* has passed max_pages), and the driver returns.
LoopEndsByControllerOrBudget ==
    (pc = "fb_done" /\ parsed >= 1) =>
        /\ fb.kind = "return"
        /\ page > max_pages \/ page = parsed

\* C27 (as claimed): the page parser always ends by returning a list, after a
\* bounded number of calls between the two parsing functions: the page
\* function calls the simple one once and neither is entered again for the
\* same page, so at most two frames are ever open.
ParserReturnsList ==
    /\ pc = "parse" => Len(stack) <= 2
    /\ ParserFinished => ret.kind = "return"

\* the rows of the table that give a record: the row can be read and the
\* extractor finds an identifier and a name
GoodRows(rows) ==
    {i \in 1..Len(rows) :
        ~RowRaises(rows[i]) /\ extract_record_from_row(rows[i]) # NoRecord}

\* C28: in the structured strategy a row whose extraction fails gives no
\* record and stops nothing: the list holds the record of every other row
\* that has one, in the order of the rows.
RowFailureIsolated ==
    Decoded("table") =>
        LET rows == din.val
        IN  /\ Len(dout) = Cardinality(GoodRows(rows))
            /\ \A i \in GoodRows(rows) :
                   dout[Cardinality({j \in GoodRows(rows) : j <= i})]
                       = extract_record_from_row(rows[i])

\* the first row of the table raises and the second is extracted
RowFailureIsolatedWitness ==
    /\ Decoded("table")
    /\ Len(din.val) = 2
    /\ RowRaises(din.val[1])
    /\ GoodRows(din.val) = {2}
    /\ Len(dout) = 1

(***************************************************************************)
(* Properties of the feed.                                                  *)
(***************************************************************************)
\* C29 (as claimed): the feed decoder resolves identifier and name from the
\* second cell as the row extractor does from a row with that cell: a record
\* of the same identifier and name, or none exactly when the extractor gives
\* none.
FeedDecodesAsExtractor ==
    (Decoded("feed") /\ Len(din.val) = 1 /\ din.val[1].shape = "cells"
        /\ din.val[1].more = <<>>) =>
        LET game_data == extract_game_data_from_row(din.val[1].cell)
        IN  IF game_data = Absent THEN dout = <<>>
            ELSE Len(dout) = 1 /\ dout[1].game = game_data

Fetched(name, t) == TechsOf(catalog, name)[t]

\* C31 (as claimed): the walker changes an entry only in its record list:
\* apart from `games` every entry is as it was fetched, and an entry the
\* pipeline was not invoked for is as it was fetched altogether.
EntriesOnlyGainGames ==
    \A i \in 1..Len(categories) : \A t \in 1..Len(categories[i].techs) :
        LET tech_info == categories[i].techs[t]
            fetched == Fetched(categories[i].name, t)
        IN  /\ [tech_info EXCEPT !.games = fetched.games] = fetched
            /\ ~WasInvoked(categories[i].name, t) => tech_info = fetched

\* C31 (amended): the walker changes an entry only in its record list and,
\* when the extraction raised, by an error text next to an empty list: link
\* and declared count are as fetched, and an entry the pipeline was not
\* invoked for is as it was fetched altogether.
EntriesGainGamesOrError ==
    \A i \in 1..Len(categories) : \A t \in 1..Len(categories[i].techs) :
        LET tech_info == categories[i].techs[t]
            fetched == Fetched(categories[i].name, t)
        IN  /\ tech_info.link = fetched.link
            /\ tech_info.count = fetched.count
            /\ tech_info.error => tech_info.games = <<>>
            /\ ~WasInvoked(categories[i].name, t) => tech_info = fetched

\* the run is complete with an entry that holds records, an entry whose
\* extraction raised and an entry the pipeline was not invoked for
EntriesGainGamesOrErrorWitness ==
    /\ mpc = "complete"
    /\ \E i \in 1..Len(categories) : \E t \in 1..Len(categories[i].techs) :
          categories[i].techs[t].games # <<>>
    /\ \E i \in 1..Len(categories) : \E t \in 1..Len(categories[i].techs) :
          categories[i].techs[t].error
    /\ \E i \in 1..Len(categories) : \E t \in 1..Len(categories[i].techs) :
          ~WasInvoked(categories[i].name, t)

\* C32: once the browser has been started, main() ends with close() called
\* on the parser exactly once, however its try block was left (an early
\* return, the end of the block, KeyboardInterrupt, a fatal error); close()
\* is called nowhere before that, and never a second time.
ClosedOnceOnExit ==
    /\ close_calls <= 1
    /\ ~exited => close_calls = 0
    /\ (exited /\ driver) => (mpc \in Exits /\ close_calls = 1)

\* an interrupted run whose browser had been started has ended, closed once
ClosedOnceOnExitWitness ==
    /\ mpc = "interrupted"
    /\ invoked # <<>>
    /\ driver
    /\ exited
    /\ close_calls = 1

\* each way out of the try block ends with the browser closed
ClosedAfterReturn == mpc = "returned" /\ driver /\ exited /\ close_calls = 1
ClosedAfterComplete == mpc = "complete" /\ driver /\ exited /\ close_calls = 1
ClosedAfterFatal == mpc = "fatal" /\ driver /\ exited /\ close_calls = 1

====
